---- MODULE Spec2Model ----
(***************************************************************************)
(* Rate-limit admission control and analytics logging of app.py.           *)
(*                                                                         *)
(* The store is PostgreSQL reached through a psycopg2 SimpleConnectionPool.*)
(* A request handler runs as a process; its statements on the store are    *)
(* the steps that interleave with other handlers.  Every handler runs in   *)
(* its own transaction at READ COMMITTED: a SELECT sees committed rows     *)
(* only, an INSERT or UPDATE holds the row until commit or rollback, and a *)
(* second writer of the same row waits for the first.                      *)
(*                                                                         *)
(* Time is counted in ticks, TicksPerHour to the hour.  Timestamps read    *)
(* back from the store are taken to be comparable with datetime.now().     *)
(***************************************************************************)
EXTENDS Integers, Sequences, FiniteSets, TLC

(* ---- bounds of the model ---- *)
TicksPerHour == 1
MaxTime == 1
MaxTimeSeq == 10
MaxFaults == 1
NumContexts == 2
MaxRequests == 3
MaxTimeChat == 2
MaxBurst == 11
MaxReportRequests == 2
MaxTimeSpan == 3

(* ---- program constants ---- *)
max_requests_per_hour == 10
max_requests_per_day == 50
maxconn == 20

Hour == TicksPerHour
Day == 24 * TicksPerHour

Procs == {1, 2}
SeqProcs == {1}
Contexts == 1..NumContexts

VARIABLES
  connection_pool,  \* TRUE: the pool object exists; FALSE: None
  used,             \* handles checked out of the pool
  clock,            \* wall clock, in ticks
  rate_limits,      \* committed rows of table rate_limits, keyed by user_id
  pending,          \* per process: the uncommitted row write of its transaction
  pc,               \* per process: position in its handler
  frame,            \* per process: local variables of check_rate_limit
  result,           \* per process: what the last check_rate_limit call returned
  faults,           \* calls that met a store error so far
  model,            \* TRUE: the generation model was configured; FALSE: None
  chat,             \* per process: the chat_with_recommendations call in progress
  analytics,        \* committed rows of table analytics
  recommendations,  \* committed rows of table recommendations
  requests,         \* chat_with_recommendations calls started
  hourAdmitted,     \* per user_id: admits counted since the stored hour window start
  dayAdmitted,      \* per user_id: admits counted since the stored day window start
  db_initialized,   \* what init_database returned when the module was loaded
  retry,            \* per process: minutes named in the last hourly denial
  dashboard,        \* the last get_admin_dashboard call
  monitor,          \* the db_monitor.py process
  others,           \* handles held by other operations in flight
  spanAdmitted      \* admits of the identities of SpanIds, by the age of their now

vars == <<connection_pool, used, clock, rate_limits, pending, pc, frame, result,
          faults, model, chat, analytics, recommendations, requests,
          hourAdmitted, dayAdmitted, db_initialized, retry, dashboard, monitor,
          others, spanAdmitted>>

chatVars == <<model, chat, analytics, recommendations, requests>>

\* Variant: the clock-hour bucket never changes.
hour_bucket_frozen(t) == 0

(* time.time() // 3600 *)
hour_bucket(t) == t \div TicksPerHour

(* get_user_id: a digest of the request context and the clock-hour bucket. *)
get_user_id(request_info, t) == <<request_info, hour_bucket(t)>>

(* f"{email}{currentRole}{time.time() // 3600}" *)
request_info(context, t) == <<context, hour_bucket(t)>>

UserIds ==
  {get_user_id(request_info(c, t), t) : c \in Contexts, t \in 0..MaxTimeChat}

\* The identity the callers of check_rate_limit alone use.
DirectIds == {get_user_id(request_info(1, 0), 0)}

\* An identity the callers of check_rate_limit alone use, one whose admits
\* are counted by the hour in which they fell.
SpanIds == {get_user_id(request_info(1, 0), Hour)}

\* The empty string passed as user_id: no digest of a context equals it.
empty_user_id == <<<<0, 0>>, -1>>

AllIds == UserIds \cup SpanIds \cup {empty_user_id}

NoChat == [active |-> FALSE, user_id |-> <<<<0, 0>>, 0>>, attempts |-> 0,
           logged |-> "none", log_conn |-> FALSE, outcome |-> "none"]

NoFrame == [user_id |-> <<<<0, 0>>, 0>>, cursor |-> FALSE, now |-> 0,
            hourly_count |-> 0, daily_count |-> 0,
            last_hour_reset |-> 0, last_day_reset |-> 0]

NoDashboard == [how |-> "none", analytics |-> "none", html |-> "none"]

NoMonitor == [at |-> "off", command |-> "none", configured |-> FALSE,
              store_up |-> FALSE, step |-> 0,
              returned |-> "none", printed |-> FALSE, exit_code |-> -1]

(* ---- pure parts of check_rate_limit ---- *)

\* Variant: the row starts from the column defaults (counts 0).
new_record_from_defaults(now) ==
  [hourly_count |-> 0, daily_count |-> 0,
   last_hour_reset |-> now, last_day_reset |-> now]

\* Variant: the window starts are left at the epoch instead of now.
new_record_at_epoch(now) ==
  [hourly_count |-> 1, daily_count |-> 1,
   last_hour_reset |-> 0, last_day_reset |-> 0]

new_record(now) ==
  [hourly_count |-> 1, daily_count |-> 1,
   last_hour_reset |-> now, last_day_reset |-> now]

\* Variant: the hour window is over at exactly one hour.
hour_expired_at_one_hour(now, last_hour_reset) == now - last_hour_reset >= Hour

hour_expired(now, last_hour_reset) == now - last_hour_reset > Hour

day_expired(now, last_day_reset) == now - last_day_reset > Day

\* Variant: an expired hour window resets the daily counter as well.
after_reset_clears_day(record, now) ==
  [hourly_count    |-> IF now - record.last_hour_reset > Hour
                       THEN 0 ELSE record.hourly_count,
   last_hour_reset |-> IF now - record.last_hour_reset > Hour
                       THEN now ELSE record.last_hour_reset,
   daily_count     |-> IF now - record.last_hour_reset > Hour
                          \/ now - record.last_day_reset > Day
                       THEN 0 ELSE record.daily_count,
   last_day_reset  |-> IF now - record.last_hour_reset > Hour
                          \/ now - record.last_day_reset > Day
                       THEN now ELSE record.last_day_reset]

(* The local counters and window starts after the two reset tests. *)
after_reset(record, now) ==
  [hourly_count    |-> IF hour_expired(now, record.last_hour_reset)
                       THEN 0 ELSE record.hourly_count,
   last_hour_reset |-> IF hour_expired(now, record.last_hour_reset)
                       THEN now ELSE record.last_hour_reset,
   daily_count     |-> IF day_expired(now, record.last_day_reset)
                       THEN 0 ELSE record.daily_count,
   last_day_reset  |-> IF day_expired(now, record.last_day_reset)
                       THEN now ELSE record.last_day_reset]

\* Variant: the hourly test is off by one.
hourly_exceeded_off_by_one(hourly_count) == hourly_count > max_requests_per_hour

hourly_exceeded(hourly_count) == hourly_count >= max_requests_per_hour

\* Variant: the daily test is off by one.
daily_exceeded_off_by_one(daily_count) == daily_count > max_requests_per_day

daily_exceeded(daily_count) == daily_count >= max_requests_per_day

\* Variant: the daily limit is tested before the hourly one.
decision_daily_first(hourly_count, daily_count) ==
  IF daily_exceeded(daily_count) THEN "daily"
  ELSE IF hourly_exceeded(hourly_count) THEN "hourly"
  ELSE "allowed"

(* The limit tests, hourly first. *)
decision(hourly_count, daily_count) ==
  IF hourly_exceeded(hourly_count) THEN "hourly"
  ELSE IF daily_exceeded(daily_count) THEN "daily"
  ELSE "allowed"

\* timedelta.seconds of a difference of `ticks`: the seconds field of the
\* normalised timedelta, 0..86399 with the sign carried by the days field.
timedelta_seconds(ticks) == (ticks * (3600 \div TicksPerHour)) % 86400

\* Line 285: 60 - (now - last_hour_reset).seconds // 60
retry_minutes(now, last_hour_reset) ==
  60 - (timedelta_seconds(now - last_hour_reset) \div 60)

\* Variant: the UPDATE writes the counters back without adding the request.
updated_record_not_counting(f) ==
  [hourly_count |-> f.hourly_count, daily_count |-> f.daily_count,
   last_hour_reset |-> f.last_hour_reset, last_day_reset |-> f.last_day_reset]

(* The row the UPDATE writes from the local variables. *)
updated_record(f) ==
  [hourly_count |-> f.hourly_count + 1, daily_count |-> f.daily_count + 1,
   last_hour_reset |-> f.last_hour_reset, last_day_reset |-> f.last_day_reset]

(* ---- the pool ---- *)

\* Variant: get_db_connection does not test connection_pool.
getconn_ok_without_pool_test == used < maxconn

\* Variant: getconn hands out a handle however many are checked out.
getconn_ok_unbounded == connection_pool

\* connection_pool.getconn() hands out a handle unless the pool is exhausted.
getconn_ok == connection_pool /\ used < maxconn

\* Variant: init_database raises when get_db_connection gives None.
init_database_raising(pool) == IF pool THEN "true" ELSE "raised"

\* init_database as the module is loaded: without a pool get_db_connection
\* gives None and init_database returns False; with the pool the tables are
\* created and it returns True.
init_database(pool) == IF pool THEN "true" ELSE "false"

\* return_db_connection: putconn when there is a pool and a handle.
return_db_connection(n) == IF connection_pool THEN n - 1 ELSE n

\* Variant: rate_limits has no primary key, an INSERT never conflicts.
insert_conflicts_without_key(id) == FALSE

\* user_id is the primary key of rate_limits: an INSERT of a user_id that
\* has a committed row raises a unique violation.
insert_conflicts(id) == id \in DOMAIN rate_limits

\* Variant: a denying call stores the counters and window starts it reset.
denied_record_with_reset(record, r) == r

\* The stored row after a call that denies: the call returns before its
\* UPDATE, so the row stays as stored, whatever `r` the reset tests gave.
denied_record(record, r) == record

\* Variant: get_db_connection builds the pool when there is none.
pool_after_getconn_rebuilding(pool) == TRUE

\* connection_pool after get_db_connection: the function reads the global
\* and never assigns it.
pool_after_getconn(pool) == pool

\* A row is held by the transaction that wrote it and has not ended.
RowHeld(id) == \E q \in Procs : pending[q] # <<>> /\ frame[q].user_id = id

\* Variant: a denial counts as an admit.
Admits_with_denials ==
  {"first", "allowed", "unavailable", "failed_open", "hourly", "daily"}

\* The results whose first component is True.
Admits == {"first", "allowed", "unavailable", "failed_open"}

(* ---- check_rate_limit, step by step ---- *)

\* The finally block: cursor.close() and return_db_connection(conn).  With
\* cursor never bound, cursor.close() raises and the handle is not returned.
finally_used(cursor_bound, n) ==
  IF cursor_bound THEN return_db_connection(n) ELSE n

finally_result(cursor_bound, tag) == IF cursor_bound THEN tag ELSE "raised"

\* Leaving check_rate_limit with `tag` through the finally block.
Leave(p, tag) ==
  /\ used' = finally_used(frame[p].cursor, used)
  /\ result' = [result EXCEPT ![p] = finally_result(frame[p].cursor, tag)]
  /\ frame' = [frame EXCEPT ![p] = NoFrame]
  /\ pending' = [pending EXCEPT ![p] = <<>>]
  /\ pc' = [pc EXCEPT ![p] = IF chat[p].active THEN "rate_checked" ELSE "idle"]

\* conn = get_db_connection(); if not conn: return True, "Database unavailable..."
GetConn(p, user_id, fail) ==
  /\ fail => faults < MaxFaults
  /\ faults' = IF fail THEN faults + 1 ELSE faults
  /\ IF getconn_ok /\ ~fail
     THEN /\ used' = used + 1
          /\ pc' = [pc EXCEPT ![p] = "cursor"]
          /\ frame' = [frame EXCEPT ![p] = [NoFrame EXCEPT !.user_id = user_id]]
          /\ result' = [result EXCEPT ![p] = "none"]
     ELSE /\ result' = [result EXCEPT ![p] = "unavailable"]
          /\ pc' = [pc EXCEPT ![p] = IF chat[p].active THEN "rate_checked" ELSE "idle"]
          /\ UNCHANGED <<used, frame>>
  /\ retry' = [retry EXCEPT ![p] = 0]
  /\ connection_pool' = pool_after_getconn(connection_pool)
  /\ UNCHANGED <<db_initialized, dashboard, monitor, others, spanAdmitted,
                 clock, rate_limits, pending, hourAdmitted, dayAdmitted>>
  /\ UNCHANGED chatVars

\* check_rate_limit called on its own.
check_rate_limit_getconn(p, user_id, fail) ==
  /\ pc[p] = "idle"
  /\ GetConn(p, user_id, fail)
  /\ UNCHANGED chatVars

\* check_rate_limit called from chat_with_recommendations (line 921).
chat_check_rate_limit(p, fail) ==
  /\ pc[p] = "call"
  /\ GetConn(p, chat[p].user_id, fail)
  /\ UNCHANGED chatVars

\* cursor = conn.cursor(...); now = datetime.now()
check_rate_limit_cursor(p, fail) ==
  /\ pc[p] = "cursor"
  /\ fail => faults < MaxFaults
  /\ faults' = IF fail THEN faults + 1 ELSE faults
  /\ IF fail
     THEN /\ pc' = [pc EXCEPT ![p] = "except"]
          /\ UNCHANGED frame
     ELSE /\ pc' = [pc EXCEPT ![p] = "select"]
          /\ frame' = [frame EXCEPT ![p].cursor = TRUE, ![p].now = clock]
  /\ UNCHANGED <<connection_pool, db_initialized, dashboard, monitor, others,
                 spanAdmitted, retry,
                 used, clock, rate_limits, pending, result,
                 hourAdmitted, dayAdmitted>>
  /\ UNCHANGED chatVars

\* SELECT, fetchone, the reset tests and the limit tests.
check_rate_limit_select(p, fail) ==
  /\ pc[p] = "select"
  /\ fail => faults < MaxFaults
  /\ faults' = IF fail THEN faults + 1 ELSE faults
  /\ LET id == frame[p].user_id IN
     IF fail
     THEN /\ pc' = [pc EXCEPT ![p] = "except"]
          /\ UNCHANGED <<used, frame, result, pending, retry, rate_limits>>
     ELSE IF id \notin DOMAIN rate_limits
     THEN /\ pc' = [pc EXCEPT ![p] = "insert"]
          /\ UNCHANGED <<used, frame, result, pending, retry, rate_limits>>
     ELSE LET r == after_reset(rate_limits[id], frame[p].now)
              d == decision(r.hourly_count, r.daily_count)
          IN IF d = "allowed"
             THEN /\ pc' = [pc EXCEPT ![p] = "update"]
                  /\ frame' = [frame EXCEPT ![p].hourly_count = r.hourly_count,
                                            ![p].daily_count = r.daily_count,
                                            ![p].last_hour_reset = r.last_hour_reset,
                                            ![p].last_day_reset = r.last_day_reset]
                  /\ UNCHANGED <<used, result, pending, retry, rate_limits>>
             ELSE /\ Leave(p, d)
                  /\ rate_limits' = [rate_limits EXCEPT ![id] = denied_record(@, r)]
                  /\ retry' = [retry EXCEPT ![p] =
                       IF d = "hourly"
                       THEN retry_minutes(frame[p].now, r.last_hour_reset) ELSE @]
  /\ UNCHANGED <<connection_pool, db_initialized, dashboard, monitor, others,
                 spanAdmitted,
                 clock, hourAdmitted, dayAdmitted>>
  /\ UNCHANGED chatVars

\* INSERT INTO rate_limits ... VALUES (user_id, 1, 1, now, now)
check_rate_limit_insert(p, fail) ==
  /\ pc[p] = "insert"
  /\ ~RowHeld(frame[p].user_id)
  /\ fail => faults < MaxFaults
  /\ faults' = IF fail THEN faults + 1 ELSE faults
  /\ IF fail \/ insert_conflicts(frame[p].user_id)
     THEN /\ pc' = [pc EXCEPT ![p] = "except"]
          /\ UNCHANGED pending
     ELSE /\ pc' = [pc EXCEPT ![p] = "commit_insert"]
          /\ pending' = [pending EXCEPT ![p] = <<new_record(frame[p].now)>>]
  /\ UNCHANGED <<connection_pool, db_initialized, dashboard, monitor, others,
                 spanAdmitted, retry,
                 used, clock, rate_limits, frame, result,
                 hourAdmitted, dayAdmitted>>
  /\ UNCHANGED chatVars

\* UPDATE rate_limits SET ... WHERE user_id = %s
check_rate_limit_update(p, fail) ==
  /\ pc[p] = "update"
  /\ ~RowHeld(frame[p].user_id)
  /\ fail => faults < MaxFaults
  /\ faults' = IF fail THEN faults + 1 ELSE faults
  /\ IF fail
     THEN /\ pc' = [pc EXCEPT ![p] = "except"]
          /\ UNCHANGED pending
     ELSE /\ pc' = [pc EXCEPT ![p] = "commit_update"]
          /\ pending' = [pending EXCEPT ![p] = <<updated_record(frame[p])>>]
  /\ UNCHANGED <<connection_pool, db_initialized, dashboard, monitor, others,
                 spanAdmitted, retry,
                 used, clock, rate_limits, frame, result,
                 hourAdmitted, dayAdmitted>>
  /\ UNCHANGED chatVars

\* The admits counted against the stored windows once `row` replaces the
\* row of `id`: one more in a window whose start stays, one in a new window.
CountAdmit(id, row) ==
  LET fresh == id \notin DOMAIN rate_limits IN
  /\ hourAdmitted' = [hourAdmitted EXCEPT ![id] =
       IF fresh \/ rate_limits[id].last_hour_reset # row.last_hour_reset
       THEN 1 ELSE @ + 1]
  /\ dayAdmitted' = [dayAdmitted EXCEPT ![id] =
       IF fresh \/ rate_limits[id].last_day_reset # row.last_day_reset
       THEN 1 ELSE @ + 1]

\* The admits of the identities of SpanIds of the last hour, by the age of
\* the `now` their call read, once a call of that age is admitted for `id`.
CountSpan(id, age) ==
  IF id \in SpanIds /\ age \in 0..Hour
  THEN [spanAdmitted EXCEPT ![age] = @ + 1]
  ELSE spanAdmitted

\* conn.commit() and the return that follows it.
check_rate_limit_commit(p, fail) ==
  /\ pc[p] \in {"commit_insert", "commit_update"}
  /\ fail => faults < MaxFaults
  /\ faults' = IF fail THEN faults + 1 ELSE faults
  /\ LET id == frame[p].user_id
         row == pending[p][1]
     IN IF fail
        THEN /\ pc' = [pc EXCEPT ![p] = "except"]
             /\ UNCHANGED <<used, rate_limits, pending, frame, result,
                            hourAdmitted, dayAdmitted, spanAdmitted>>
        ELSE /\ rate_limits' = (id :> row) @@ rate_limits
             /\ CountAdmit(id, row)
             /\ spanAdmitted' = CountSpan(id, clock - frame[p].now)
             /\ Leave(p, IF pc[p] = "commit_insert" THEN "first" ELSE "allowed")
  /\ UNCHANGED <<connection_pool, db_initialized, dashboard, monitor, others,
                 retry, clock>>
  /\ UNCHANGED chatVars

\* except Exception: conn.rollback(); return True, "Rate limit check failed..."
check_rate_limit_except(p, fail) ==
  /\ pc[p] = "except"
  /\ UNCHANGED faults
  /\ Leave(p, IF fail THEN "raised" ELSE "failed_open")
  /\ UNCHANGED <<connection_pool, db_initialized, dashboard, monitor, others,
                 spanAdmitted, retry,
                 clock, rate_limits, hourAdmitted, dayAdmitted>>
  /\ UNCHANGED chatVars

(* ---- save_user_profile, log_recommendation, log_analytics ---- *)

\* How one call of a logging function goes: "ok"; "noconn", get_db_connection
\* gave None; "cursor", conn.cursor() raised; "execute" and "commit", that
\* statement raised and the rollback went through; "rollback", a statement
\* raised and so did conn.rollback().
HelperOutcomes == {"ok", "noconn", "cursor", "execute", "commit", "rollback"}

helper_faults(o) == IF ~getconn_ok \/ o = "ok" THEN 0 ELSE 1

helper_possible(o) ==
  /\ ~getconn_ok => o = "noconn"
  /\ faults + helper_faults(o) <= MaxFaults

\* What the caller gets: True, False, or the exception leaving the function.
helper_return(o) ==
  CASE o = "ok" -> "true"
    [] o \in {"noconn", "execute", "commit"} -> "false"
    [] o \in {"cursor", "rollback"} -> "raised"

\* Handles checked out after the call: one taken, then the finally block.
helper_used(o, n) == IF o = "noconn" THEN n ELSE finally_used(o # "cursor", n + 1)

\* Variant: a call that fails takes the newest row away with its rollback.
helper_rows_dropping(o, n) == IF o = "ok" THEN n + 1 ELSE IF n > 0 THEN n - 1 ELSE n

\* Rows of the table after the call.
helper_rows(o, n) == IF o = "ok" THEN n + 1 ELSE n

(* ---- chat_with_recommendations ---- *)

\* Lines 888-907: validation, then the identity for rate limiting.  `bound`
\* limits the number of requests a behaviour starts.
chat_with_recommendations_bounded(bound, p, context, valid) ==
  /\ pc[p] = "idle"
  /\ requests < bound
  /\ requests' = requests + 1
  /\ IF valid
     THEN /\ chat' = [chat EXCEPT ![p] =
                 [NoChat EXCEPT !.active = TRUE,
                                !.user_id = get_user_id(request_info(context, clock), clock)]]
          /\ pc' = [pc EXCEPT ![p] = "call"]
     ELSE /\ chat' = [chat EXCEPT ![p] = [NoChat EXCEPT !.outcome = "rejected"]]
          /\ UNCHANGED pc
  /\ UNCHANGED <<connection_pool, db_initialized, dashboard, monitor, others,
                 spanAdmitted, retry,
                 used, clock, rate_limits, pending, frame, result,
                 faults, model, analytics, recommendations, hourAdmitted, dayAdmitted>>

chat_with_recommendations(p, context, valid) ==
  chat_with_recommendations_bounded(MaxRequests, p, context, valid)

\* One log_analytics call that ends the request with `outcome`, unless it raises.
LogAndReturn(p, o, outcome) ==
  /\ helper_possible(o)
  /\ faults' = faults + helper_faults(o)
  /\ used' = helper_used(o, used)
  /\ analytics' = helper_rows(o, analytics)
  /\ chat' = [chat EXCEPT ![p].attempts = @ + 1,
                          ![p].logged = helper_return(o),
                          ![p].log_conn = (o # "noconn"),
                          ![p].active = FALSE,
                          ![p].outcome = IF helper_return(o) = "raised"
                                         THEN "raised" ELSE outcome]
  /\ pc' = [pc EXCEPT ![p] = "idle"]

\* Lines 921-938: the result of check_rate_limit, then the model test.
chat_after_rate_limit(p) ==
  /\ pc[p] = "rate_checked"
  /\ IF result[p] = "raised"
     THEN /\ chat' = [chat EXCEPT ![p].active = FALSE, ![p].outcome = "raised"]
          /\ pc' = [pc EXCEPT ![p] = "idle"]
          /\ UNCHANGED <<used, faults, analytics>>
     ELSE IF result[p] \notin Admits
     THEN \E o \in HelperOutcomes : LogAndReturn(p, o, "denied")
     ELSE IF ~model
     THEN \E o \in HelperOutcomes : LogAndReturn(p, o, "no_model")
     ELSE /\ pc' = [pc EXCEPT ![p] = "save_profile"]
          /\ UNCHANGED <<used, faults, analytics, chat>>
  /\ UNCHANGED <<connection_pool, db_initialized, dashboard, monitor, others,
                 spanAdmitted, retry,
                 clock, rate_limits, pending, frame, result,
                 model, recommendations, requests, hourAdmitted, dayAdmitted>>

\* Line 941: save_user_profile(...), outside the try block.
chat_save_user_profile(p) ==
  /\ pc[p] = "save_profile"
  /\ \E o \in HelperOutcomes :
       /\ helper_possible(o)
       /\ faults' = faults + helper_faults(o)
       /\ used' = helper_used(o, used)
       /\ IF helper_return(o) = "raised"
          THEN /\ chat' = [chat EXCEPT ![p].active = FALSE, ![p].outcome = "raised"]
               /\ pc' = [pc EXCEPT ![p] = "idle"]
          ELSE /\ pc' = [pc EXCEPT ![p] = "generate"]
               /\ UNCHANGED chat
  /\ UNCHANGED <<connection_pool, db_initialized, dashboard, monitor, others,
                 spanAdmitted, retry,
                 clock, rate_limits, pending, frame, result,
                 model, analytics, recommendations, requests, hourAdmitted, dayAdmitted>>

\* Lines 959-998: the generation call, parsing and formatting, inside try.
chat_generate(p, ok) ==
  /\ pc[p] = "generate"
  /\ pc' = [pc EXCEPT ![p] = IF ok THEN "log_recommendation" ELSE "handler"]
  /\ UNCHANGED <<connection_pool, db_initialized, dashboard, monitor, others,
                 spanAdmitted, retry,
                 used, clock, rate_limits, pending, frame, result,
                 faults, model, chat, analytics, recommendations, requests,
                 hourAdmitted, dayAdmitted>>

\* Line 1000: log_recommendation(...), inside try.
chat_log_recommendation(p) ==
  /\ pc[p] = "log_recommendation"
  /\ \E o \in HelperOutcomes :
       /\ helper_possible(o)
       /\ faults' = faults + helper_faults(o)
       /\ used' = helper_used(o, used)
       /\ recommendations' = helper_rows(o, recommendations)
       /\ pc' = [pc EXCEPT ![p] = IF helper_return(o) = "raised"
                                  THEN "handler" ELSE "log_success"]
  /\ UNCHANGED <<connection_pool, db_initialized, dashboard, monitor, others,
                 spanAdmitted, retry,
                 clock, rate_limits, pending, frame, result,
                 model, chat, analytics, requests, hourAdmitted, dayAdmitted>>

\* Lines 1001-1008: log_analytics(..., True, ...), inside try, then the return.
chat_log_analytics(p) ==
  /\ pc[p] = "log_success"
  /\ \E o \in HelperOutcomes :
       /\ helper_possible(o)
       /\ faults' = faults + helper_faults(o)
       /\ used' = helper_used(o, used)
       /\ analytics' = helper_rows(o, analytics)
       /\ IF helper_return(o) = "raised"
          THEN /\ chat' = [chat EXCEPT ![p].attempts = @ + 1,
                                       ![p].logged = "raised",
                                       ![p].log_conn = TRUE]
               /\ pc' = [pc EXCEPT ![p] = "handler"]
          ELSE /\ chat' = [chat EXCEPT ![p].attempts = @ + 1,
                                       ![p].logged = helper_return(o),
                                       ![p].log_conn = (o # "noconn"),
                                       ![p].active = FALSE,
                                       ![p].outcome = "ok"]
               /\ pc' = [pc EXCEPT ![p] = "idle"]
  /\ UNCHANGED <<connection_pool, db_initialized, dashboard, monitor, others,
                 spanAdmitted, retry,
                 clock, rate_limits, pending, frame, result,
                 model, recommendations, requests, hourAdmitted, dayAdmitted>>

\* Lines 1010-1040: except Exception: log_analytics(..., False, ...), return.
chat_except(p) ==
  /\ pc[p] = "handler"
  /\ \E o \in HelperOutcomes : LogAndReturn(p, o, "error")
  /\ UNCHANGED <<connection_pool, db_initialized, dashboard, monitor, others,
                 spanAdmitted, retry,
                 clock, rate_limits, pending, frame, result,
                 model, recommendations, requests, hourAdmitted, dayAdmitted>>

(* ---- get_analytics_dashboard, get_admin_dashboard ---- *)

\* How one get_analytics_dashboard call goes: "execute" is any of its three
\* queries failing; there is no commit and the except branch has no rollback.
DashboardOutcomes == {"ok", "noconn", "cursor", "execute"}

\* Variant: without a handle get_analytics_dashboard raises.
analytics_dashboard_return_raising(o) ==
  CASE o = "ok" -> "data"
    [] o = "execute" -> "empty"
    [] o \in {"noconn", "cursor"} -> "raised"

\* get_analytics_dashboard: the three result sets, {} or the exception that
\* leaves through the finally block.
analytics_dashboard_return(o) ==
  CASE o = "ok" -> "data"
    [] o \in {"noconn", "execute"} -> "empty"
    [] o = "cursor" -> "raised"

\* get_admin_dashboard: `if not analytics: return "Database connection
\* unavailable"`, else the page built from the result sets.
admin_dashboard_return(a) ==
  CASE a = "data" -> "html"
    [] a = "empty" -> "unavailable"
    [] a = "raised" -> "raised"

get_admin_dashboard(o) ==
  /\ o \in DashboardOutcomes
  /\ helper_possible(o)
  /\ faults' = faults + helper_faults(o)
  /\ used' = helper_used(o, used)
  /\ dashboard' = [how |-> o,
                   analytics |-> analytics_dashboard_return(o),
                   html |-> admin_dashboard_return(analytics_dashboard_return(o))]
  /\ UNCHANGED <<connection_pool, others, spanAdmitted, db_initialized, monitor, retry, clock, rate_limits,
                 pending, pc, frame, result, hourAdmitted, dayAdmitted>>
  /\ UNCHANGED chatVars

(* ---- db_monitor.py ---- *)

\* sys.argv[1]: the six sub-commands, anything else ("help"), or none ("full").
MonitorCommands ==
  {"daily", "users", "careers", "recommendations", "rates", "errors", "help", "full"}

\* run_full_report: the query methods in the order it calls them.
full_report == <<"daily", "careers", "rates", "errors", "recommendations", "users">>

\* How one query method goes: "noconn", get_connection gave None; "cursor",
\* conn.cursor() raised; "execute", a query or the printing of its rows raised.
MonitorOutcomes == {"ok", "noconn", "cursor", "execute"}

\* What the query method gives its caller.
monitor_return(o) ==
  CASE o = "ok" -> "rows"
    [] o \in {"noconn", "execute"} -> "None"
    [] o = "cursor" -> "raised"

\* The exit code of the process once main is over: main returns whatever the
\* query methods returned, and only an uncaught exception ends it otherwise.
monitor_exit_code(returned) == IF returned = "raised" THEN 1 ELSE 0

\* main: DatabaseMonitor() raises ValueError without connection details; an
\* unknown sub-command prints the usage; else the sub-command is dispatched.
monitor_main(command, configured, up) ==
  /\ monitor.at \in {"off", "exited"}
  /\ monitor' =
       IF ~configured
       THEN [NoMonitor EXCEPT !.at = "exited", !.command = command,
                              !.returned = "raised",
                              !.exit_code = monitor_exit_code("raised")]
       ELSE IF command = "help"
       THEN [NoMonitor EXCEPT !.at = "exited", !.command = command,
                              !.configured = TRUE, !.store_up = up,
                              !.exit_code = monitor_exit_code("none")]
       ELSE [NoMonitor EXCEPT !.at = "run", !.command = command,
                              !.configured = TRUE, !.store_up = up, !.step = 1]
  /\ UNCHANGED <<connection_pool, others, spanAdmitted, db_initialized, dashboard, retry, used, clock,
                 rate_limits, pending, pc, frame, result, faults,
                 hourAdmitted, dayAdmitted>>
  /\ UNCHANGED chatVars

\* One query method of DatabaseMonitor, on a connection of its own; the last
\* one is followed by the return of main.
monitor_query(o) ==
  /\ monitor.at = "run"
  /\ o \in MonitorOutcomes
  /\ (o = "noconn") = ~monitor.store_up
  /\ o \in {"cursor", "execute"} => faults < MaxFaults
  /\ faults' = IF o \in {"cursor", "execute"} THEN faults + 1 ELSE faults
  /\ LET last == monitor.command # "full" \/ monitor.step = Len(full_report)
         over == last \/ monitor_return(o) = "raised"
     IN monitor' = [monitor EXCEPT
          !.returned = monitor_return(o),
          !.printed = @ \/ o = "ok",
          !.step = IF over THEN @ ELSE @ + 1,
          !.at = IF over THEN "exited" ELSE "run",
          !.exit_code = IF over THEN monitor_exit_code(monitor_return(o)) ELSE @]
  /\ UNCHANGED <<connection_pool, others, spanAdmitted, db_initialized, dashboard, retry, used, clock,
                 rate_limits, pending, pc, frame, result, hourAdmitted, dayAdmitted>>
  /\ UNCHANGED chatVars

(* ---- other operations holding handles of the pool ---- *)

\* A handler of another request (save_user_profile, log_recommendation,
\* log_analytics, get_analytics_dashboard) takes a handle: get_db_connection.
other_getconn ==
  /\ getconn_ok
  /\ used' = used + 1
  /\ others' = others + 1
  /\ UNCHANGED <<connection_pool, db_initialized, dashboard, monitor, spanAdmitted,
                 retry, clock, rate_limits, pending, pc, frame, result, faults,
                 hourAdmitted, dayAdmitted>>
  /\ UNCHANGED chatVars

\* ... and gives it back in its finally block: return_db_connection.
other_putconn ==
  /\ others > 0
  /\ used' = return_db_connection(used)
  /\ others' = others - 1
  /\ UNCHANGED <<connection_pool, db_initialized, dashboard, monitor, spanAdmitted,
                 retry, clock, rate_limits, pending, pc, frame, result, faults,
                 hourAdmitted, dayAdmitted>>
  /\ UNCHANGED chatVars

(* ---- the clock ---- *)

\* spanAdmitted once the clock has gone on by n ticks.
aged(span, n) == [age \in 0..Hour |-> IF age >= n THEN span[age - n] ELSE 0]

Tick ==
  /\ clock < MaxTime
  /\ clock' = clock + 1
  /\ spanAdmitted' = aged(spanAdmitted, 1)
  /\ UNCHANGED <<connection_pool, db_initialized, dashboard, monitor, others, retry,
                 used, rate_limits, pending, pc, frame, result,
                 faults, hourAdmitted, dayAdmitted>>
  /\ UNCHANGED chatVars

InitChat ==
  /\ connection_pool \in BOOLEAN
  /\ used = 0
  /\ clock = 0
  /\ rate_limits = <<>>
  /\ pending = [p \in Procs |-> <<>>]
  /\ pc = [p \in Procs |-> "idle"]
  /\ frame = [p \in Procs |-> NoFrame]
  /\ result = [p \in Procs |-> "none"]
  /\ faults = 0
  /\ model \in BOOLEAN
  /\ chat = [p \in Procs |-> NoChat]
  /\ analytics = 0
  /\ recommendations = 0
  /\ requests = 0
  /\ hourAdmitted = [id \in AllIds |-> 0]
  /\ dayAdmitted = [id \in AllIds |-> 0]
  /\ db_initialized = init_database(connection_pool)
  /\ retry = [p \in Procs |-> 0]
  /\ dashboard = NoDashboard
  /\ monitor = NoMonitor
  /\ others = 0
  /\ spanAdmitted = [age \in 0..Hour |-> 0]

\* Callers of check_rate_limit alone: the model plays no part.
Init == InitChat /\ model

Next ==
  \/ Tick
  \/ \E p \in Procs, id \in DirectIds, fail \in BOOLEAN : check_rate_limit_getconn(p, id, fail)
  \/ \E p \in Procs, fail \in BOOLEAN : check_rate_limit_cursor(p, fail)
  \/ \E p \in Procs, fail \in BOOLEAN : check_rate_limit_select(p, fail)
  \/ \E p \in Procs, fail \in BOOLEAN : check_rate_limit_insert(p, fail)
  \/ \E p \in Procs, fail \in BOOLEAN : check_rate_limit_update(p, fail)
  \/ \E p \in Procs, fail \in BOOLEAN : check_rate_limit_commit(p, fail)
  \/ \E p \in Procs, fail \in BOOLEAN : check_rate_limit_except(p, fail)

Spec == Init /\ [][Next]_vars

(* One caller at a time, over a span of several hour windows. *)
TickSeq ==
  /\ clock < MaxTimeSeq
  /\ clock' = clock + 1
  /\ spanAdmitted' = aged(spanAdmitted, 1)
  /\ UNCHANGED <<connection_pool, db_initialized, dashboard, monitor, others, retry,
                 used, rate_limits, pending, pc, frame, result,
                 faults, hourAdmitted, dayAdmitted>>
  /\ UNCHANGED chatVars

NextSeq ==
  \/ TickSeq
  \/ \E p \in SeqProcs, id \in DirectIds, fail \in BOOLEAN : check_rate_limit_getconn(p, id, fail)
  \/ \E p \in SeqProcs, fail \in BOOLEAN : check_rate_limit_cursor(p, fail)
  \/ \E p \in SeqProcs, fail \in BOOLEAN : check_rate_limit_select(p, fail)
  \/ \E p \in SeqProcs, fail \in BOOLEAN : check_rate_limit_insert(p, fail)
  \/ \E p \in SeqProcs, fail \in BOOLEAN : check_rate_limit_update(p, fail)
  \/ \E p \in SeqProcs, fail \in BOOLEAN : check_rate_limit_commit(p, fail)
  \/ \E p \in SeqProcs, fail \in BOOLEAN : check_rate_limit_except(p, fail)

SpecSeq == Init /\ [][NextSeq]_vars

(* One caller at a time, its calls reading the clock around the end of a  *)
(* day window: at the start, one hour on, one day on, and one and two     *)
(* hours after that.                                                      *)
DayTimes == {0, Hour, Day, Day + Hour, Day + 2 * Hour}

TickDay ==
  /\ \E t \in DayTimes : t > clock /\ clock' = t
  /\ spanAdmitted' = aged(spanAdmitted, clock' - clock)
  /\ UNCHANGED <<connection_pool, db_initialized, dashboard, monitor, others, retry,
                 used, rate_limits, pending, pc, frame, result,
                 faults, hourAdmitted, dayAdmitted>>
  /\ UNCHANGED chatVars

NextDay ==
  \/ TickDay
  \/ \E p \in SeqProcs, id \in DirectIds, fail \in BOOLEAN : check_rate_limit_getconn(p, id, fail)
  \/ \E p \in SeqProcs, fail \in BOOLEAN : check_rate_limit_cursor(p, fail)
  \/ \E p \in SeqProcs, fail \in BOOLEAN : check_rate_limit_select(p, fail)
  \/ \E p \in SeqProcs, fail \in BOOLEAN : check_rate_limit_insert(p, fail)
  \/ \E p \in SeqProcs, fail \in BOOLEAN : check_rate_limit_update(p, fail)
  \/ \E p \in SeqProcs, fail \in BOOLEAN : check_rate_limit_commit(p, fail)
  \/ \E p \in SeqProcs, fail \in BOOLEAN : check_rate_limit_except(p, fail)

SpecDay == Init /\ [][NextDay]_vars

(* One caller at a time across a window reset, its admits counted by the  *)
(* hour; the caller goes on calling and the clock goes on to MaxTimeSpan.  *)
TickSpan ==
  /\ clock < MaxTimeSpan
  /\ clock' = clock + 1
  /\ spanAdmitted' = aged(spanAdmitted, 1)
  /\ UNCHANGED <<connection_pool, db_initialized, dashboard, monitor, others, retry,
                 used, rate_limits, pending, pc, frame, result,
                 faults, hourAdmitted, dayAdmitted>>
  /\ UNCHANGED chatVars

NextSpan ==
  \/ TickSpan
  \/ \E p \in SeqProcs, id \in SpanIds, fail \in BOOLEAN : check_rate_limit_getconn(p, id, fail)
  \/ \E p \in SeqProcs, fail \in BOOLEAN : check_rate_limit_cursor(p, fail)
  \/ \E p \in SeqProcs, fail \in BOOLEAN : check_rate_limit_select(p, fail)
  \/ \E p \in SeqProcs, fail \in BOOLEAN : check_rate_limit_insert(p, fail)
  \/ \E p \in SeqProcs, fail \in BOOLEAN : check_rate_limit_update(p, fail)
  \/ \E p \in SeqProcs, fail \in BOOLEAN : check_rate_limit_commit(p, fail)
  \/ \E p \in SeqProcs, fail \in BOOLEAN : check_rate_limit_except(p, fail)

SpecSpan == Init /\ [][NextSpan]_vars /\ WF_vars(NextSpan)

(* One caller of check_rate_limit beside other operations that take and    *)
(* return handles of the pool.                                             *)
NextPool ==
  \/ other_getconn
  \/ other_putconn
  \/ \E p \in SeqProcs, id \in DirectIds, fail \in BOOLEAN : check_rate_limit_getconn(p, id, fail)
  \/ \E p \in SeqProcs, fail \in BOOLEAN : check_rate_limit_cursor(p, fail)
  \/ \E p \in SeqProcs, fail \in BOOLEAN : check_rate_limit_select(p, fail)
  \/ \E p \in SeqProcs, fail \in BOOLEAN : check_rate_limit_insert(p, fail)
  \/ \E p \in SeqProcs, fail \in BOOLEAN : check_rate_limit_update(p, fail)
  \/ \E p \in SeqProcs, fail \in BOOLEAN : check_rate_limit_commit(p, fail)
  \/ \E p \in SeqProcs, fail \in BOOLEAN : check_rate_limit_except(p, fail)

SpecPool == Init /\ [][NextPool]_vars

(* Requests entering through chat_with_recommendations. *)
TickChat ==
  /\ clock < MaxTimeChat
  /\ clock' = clock + 1
  /\ spanAdmitted' = aged(spanAdmitted, 1)
  /\ UNCHANGED <<connection_pool, db_initialized, dashboard, monitor, others, retry,
                 used, rate_limits, pending, pc, frame, result,
                 faults, hourAdmitted, dayAdmitted>>
  /\ UNCHANGED chatVars

NextChat ==
  \/ TickChat
  \/ \E p \in SeqProcs, c \in Contexts, valid \in BOOLEAN : chat_with_recommendations(p, c, valid)
  \/ \E p \in SeqProcs, fail \in BOOLEAN : chat_check_rate_limit(p, fail)
  \/ \E p \in SeqProcs, fail \in BOOLEAN : check_rate_limit_cursor(p, fail)
  \/ \E p \in SeqProcs, fail \in BOOLEAN : check_rate_limit_select(p, fail)
  \/ \E p \in SeqProcs, fail \in BOOLEAN : check_rate_limit_insert(p, fail)
  \/ \E p \in SeqProcs, fail \in BOOLEAN : check_rate_limit_update(p, fail)
  \/ \E p \in SeqProcs, fail \in BOOLEAN : check_rate_limit_commit(p, fail)
  \/ \E p \in SeqProcs, fail \in BOOLEAN : check_rate_limit_except(p, fail)
  \/ \E p \in SeqProcs : chat_after_rate_limit(p)
  \/ \E p \in SeqProcs : chat_save_user_profile(p)
  \/ \E p \in SeqProcs, ok \in BOOLEAN : chat_generate(p, ok)
  \/ \E p \in SeqProcs : chat_log_recommendation(p)
  \/ \E p \in SeqProcs : chat_log_analytics(p)
  \/ \E p \in SeqProcs : chat_except(p)

SpecChat == InitChat /\ [][NextChat]_vars

(* A burst of requests of one context within one clock hour. *)
NextBurst ==
  \/ \E p \in SeqProcs : chat_with_recommendations_bounded(MaxBurst, p, 1, TRUE)
  \/ \E p \in SeqProcs, fail \in BOOLEAN : chat_check_rate_limit(p, fail)
  \/ \E p \in SeqProcs, fail \in BOOLEAN : check_rate_limit_cursor(p, fail)
  \/ \E p \in SeqProcs, fail \in BOOLEAN : check_rate_limit_select(p, fail)
  \/ \E p \in SeqProcs, fail \in BOOLEAN : check_rate_limit_insert(p, fail)
  \/ \E p \in SeqProcs, fail \in BOOLEAN : check_rate_limit_update(p, fail)
  \/ \E p \in SeqProcs, fail \in BOOLEAN : check_rate_limit_commit(p, fail)
  \/ \E p \in SeqProcs, fail \in BOOLEAN : check_rate_limit_except(p, fail)
  \/ \E p \in SeqProcs : chat_after_rate_limit(p)
  \/ \E p \in SeqProcs : chat_save_user_profile(p)
  \/ \E p \in SeqProcs, ok \in BOOLEAN : chat_generate(p, ok)
  \/ \E p \in SeqProcs : chat_log_recommendation(p)
  \/ \E p \in SeqProcs : chat_log_analytics(p)
  \/ \E p \in SeqProcs : chat_except(p)

SpecBurst == InitChat /\ [][NextBurst]_vars

(* Requests, the admin dashboard and runs of db_monitor.py side by side. *)
NextReport ==
  \/ \E p \in SeqProcs : chat_with_recommendations_bounded(MaxReportRequests, p, 1, TRUE)
  \/ \E p \in SeqProcs, fail \in BOOLEAN : chat_check_rate_limit(p, fail)
  \/ \E p \in SeqProcs, fail \in BOOLEAN : check_rate_limit_cursor(p, fail)
  \/ \E p \in SeqProcs, fail \in BOOLEAN : check_rate_limit_select(p, fail)
  \/ \E p \in SeqProcs, fail \in BOOLEAN : check_rate_limit_insert(p, fail)
  \/ \E p \in SeqProcs, fail \in BOOLEAN : check_rate_limit_update(p, fail)
  \/ \E p \in SeqProcs, fail \in BOOLEAN : check_rate_limit_commit(p, fail)
  \/ \E p \in SeqProcs, fail \in BOOLEAN : check_rate_limit_except(p, fail)
  \/ \E p \in SeqProcs : chat_after_rate_limit(p)
  \/ \E p \in SeqProcs : chat_save_user_profile(p)
  \/ \E p \in SeqProcs, ok \in BOOLEAN : chat_generate(p, ok)
  \/ \E p \in SeqProcs : chat_log_recommendation(p)
  \/ \E p \in SeqProcs : chat_log_analytics(p)
  \/ \E p \in SeqProcs : chat_except(p)
  \/ \E o \in DashboardOutcomes : get_admin_dashboard(o)
  \/ \E command \in MonitorCommands, configured \in BOOLEAN, up \in BOOLEAN :
       monitor_main(command, configured, up)
  \/ \E o \in MonitorOutcomes : monitor_query(o)

SpecReport == InitChat /\ [][NextReport]_vars

(* Calls that carry no usable context: requests failing validation, and    *)
(* check_rate_limit called with the empty string.                          *)
NextEmpty ==
  \/ Tick
  \/ \E p \in SeqProcs, c \in Contexts : chat_with_recommendations(p, c, FALSE)
  \/ \E p \in SeqProcs, fail \in BOOLEAN : check_rate_limit_getconn(p, empty_user_id, fail)
  \/ \E p \in SeqProcs, fail \in BOOLEAN : check_rate_limit_cursor(p, fail)
  \/ \E p \in SeqProcs, fail \in BOOLEAN : check_rate_limit_select(p, fail)
  \/ \E p \in SeqProcs, fail \in BOOLEAN : check_rate_limit_insert(p, fail)
  \/ \E p \in SeqProcs, fail \in BOOLEAN : check_rate_limit_update(p, fail)
  \/ \E p \in SeqProcs, fail \in BOOLEAN : check_rate_limit_commit(p, fail)
  \/ \E p \in SeqProcs, fail \in BOOLEAN : check_rate_limit_except(p, fail)

SpecEmpty == Init /\ [][NextEmpty]_vars

(***************************************************************************)
(* Properties                                                              *)
(***************************************************************************)

InCheckRateLimit ==
  {"cursor", "select", "insert", "update", "commit_insert", "commit_update", "except"}

\* Process p executes its SELECT step and the statement does not fail.
SelectStep(p) == pc[p] = "select" /\ pc'[p] \notin {"select", "except"}

\* Process p executes its commit and the commit goes through.
CommitStep(p) ==
  pc[p] \in {"commit_insert", "commit_update"} /\ pc'[p] \in {"idle", "rate_checked"}

(* C1: concurrent check_rate_limit calls for one fresh identity within one *)
(* hour window admit at most max_requests_per_hour of them: the number of  *)
(* calls admitted after a successful check never exceeds the hourly limit. *)
(* (Under Spec the clock never passes the first window.)                   *)
C1_AdmittedWithinLimit ==
  \A id \in UserIds : hourAdmitted[id] <= max_requests_per_hour

(* C2: sequential calls for one identity in its first hour window, with no *)
(* store error: the call that finds k < max_requests_per_hour admitted     *)
(* calls is admitted and leaves hourly_count = k + 1 (so the counts run    *)
(* 1, 2, ..., 10), and the call that finds max_requests_per_hour admitted  *)
(* calls is denied with the hourly reason and changes nothing.             *)
C2_FirstTenAdmitted ==
  [][\A p \in SeqProcs :
      LET id == frame[p].user_id IN
      /\ (/\ SelectStep(p)
          /\ id \in DOMAIN rate_limits
          /\ frame[p].now - rate_limits[id].last_hour_reset <= Hour
          /\ dayAdmitted[id] = hourAdmitted[id])
         => IF hourAdmitted[id] < max_requests_per_hour
            THEN pc'[p] = "update" /\ frame'[p].hourly_count = hourAdmitted[id]
            ELSE result'[p] = "hourly" /\ pc'[p] = "idle" /\ rate_limits' = rate_limits
      /\ CommitStep(p)
         => /\ result'[p] = (IF id \in DOMAIN rate_limits THEN "allowed" ELSE "first")
            /\ rate_limits'[id].hourly_count = hourAdmitted'[id]
            /\ hourAdmitted'[id] <= max_requests_per_hour
            /\ (id \in DOMAIN rate_limits
                /\ rate_limits'[id].last_hour_reset = rate_limits[id].last_hour_reset)
               => rate_limits'[id].hourly_count = rate_limits[id].hourly_count + 1
  ]_vars

C2_Witness ==
  \E id \in DOMAIN rate_limits :
    /\ result[1] = "hourly" /\ pc[1] = "idle" /\ faults = 0
    /\ rate_limits[id].hourly_count = max_requests_per_hour
    /\ hourAdmitted[id] = max_requests_per_hour
    /\ dayAdmitted[id] = max_requests_per_hour
    /\ rate_limits[id].last_hour_reset = rate_limits[id].last_day_reset

(* C3: in every reachable state the stored hourly_count of an identity is  *)
(* the number of calls admitted for it since the stored hour window start, *)
(* and the stored daily_count the number admitted since the stored day     *)
(* window start.                                                           *)
C3_CountsEqualAdmitted ==
  \A id \in DOMAIN rate_limits :
    /\ rate_limits[id].hourly_count = hourAdmitted[id]
    /\ rate_limits[id].daily_count = dayAdmitted[id]

(* C4: once max_requests_per_day calls were admitted in the day window, a  *)
(* call inside that day window whose hourly count (after the reset test)   *)
(* is below the hourly limit is denied with the daily reason.              *)
C4_DailyLimitDenies ==
  [][\A p \in SeqProcs :
      LET id == frame[p].user_id IN
      (/\ SelectStep(p)
       /\ id \in DOMAIN rate_limits
       /\ dayAdmitted[id] = max_requests_per_day
       /\ frame[p].now - rate_limits[id].last_day_reset <= Day
       /\ \/ rate_limits[id].hourly_count < max_requests_per_hour
          \/ frame[p].now - rate_limits[id].last_hour_reset > Hour)
      => result'[p] = "daily" /\ pc'[p] = "idle" /\ rate_limits' = rate_limits
  ]_vars

C4_Witness ==
  \E id \in DOMAIN rate_limits :
    /\ result[1] = "daily" /\ pc[1] = "idle"
    /\ dayAdmitted[id] = max_requests_per_day
    /\ rate_limits[id].hourly_count < max_requests_per_hour

(* C5: with no pool, or when get_db_connection gives no handle,            *)
(* check_rate_limit returns the fail-open admit without raising and        *)
(* without touching a record, and log_analytics returns False without      *)
(* raising and without writing a row; with no pool this holds for every    *)
(* step of every request.                                                  *)
C5_UnreachableStore ==
  /\ [][\A p \in SeqProcs :
         /\ (pc[p] = "call" /\ pc'[p] = "rate_checked")
            => /\ result'[p] = "unavailable"
               /\ rate_limits' = rate_limits /\ used' = used
         /\ (chat'[p].attempts = chat[p].attempts + 1 /\ ~chat'[p].log_conn)
            => /\ chat'[p].logged = "false"
               /\ analytics' = analytics /\ used' = used
     ]_vars
  /\ [](~connection_pool =>
          /\ rate_limits = <<>> /\ analytics = 0 /\ used = 0
          /\ \A p \in SeqProcs :
               /\ result[p] \in {"none", "unavailable"}
               /\ chat[p].logged \in {"none", "false"}
               /\ chat[p].outcome # "raised")

C5_Witness ==
  /\ ~connection_pool
  /\ result[1] = "unavailable"
  /\ chat[1].attempts = 1 /\ chat[1].logged = "false" /\ chat[1].outcome = "ok"

(* C6: whatever store step of check_rate_limit fails after the handle was  *)
(* acquired, no exception leaves check_rate_limit.                         *)
C6_NeverRaises == \A p \in Procs : result[p] # "raised"

(* C7: the handles checked out of the pool are exactly those of the calls  *)
(* in progress: every acquired handle is returned on every exit path.      *)
C7_HandlesReturned ==
  used = Cardinality({p \in Procs : pc[p] \in InCheckRateLimit})

(* C8: a finished request that reached check_rate_limit made exactly one   *)
(* log_analytics attempt.                                                  *)
C8_OneAuditAttempt ==
  \A p \in Procs :
    (pc[p] = "idle" /\ chat[p].outcome \notin {"none", "rejected"})
    => chat[p].attempts = 1

\* The rollover case of C9: the stored hourly count is at the limit, the
\* hour window is over and the day window is not, as process p sees them.
RolloverCase(p) ==
  LET id == frame[p].user_id IN
  /\ id \in DOMAIN rate_limits
  /\ rate_limits[id].hourly_count = max_requests_per_hour
  /\ frame[p].now - rate_limits[id].last_hour_reset > Hour
  /\ frame[p].now - rate_limits[id].last_day_reset <= Day

\* What C9 says of the call in the rollover case: it goes on to the UPDATE,
\* and its commit stores hourly_count 1 in a window starting now, one more
\* in daily_count, and the same day window start.
RolloverAdmits(p) ==
  LET id == frame[p].user_id IN
  /\ SelectStep(p) => pc'[p] = "update"
  /\ (pc[p] = "commit_update" /\ CommitStep(p))
     => /\ result'[p] = "allowed"
        /\ rate_limits'[id].hourly_count = 1
        /\ rate_limits'[id].last_hour_reset = frame[p].now
        /\ rate_limits'[id].daily_count = rate_limits[id].daily_count + 1
        /\ rate_limits'[id].last_day_reset = rate_limits[id].last_day_reset

(* C9 as stated: in the rollover case the next call is admitted.           *)
C9_Original ==
  [][\A p \in SeqProcs : RolloverCase(p) => RolloverAdmits(p)]_vars

(* C9: in the rollover case, and with daily_count below                    *)
(* max_requests_per_day, the next call is admitted, hourly_count becomes 1 *)
(* with the hour window starting now, and daily_count goes on from its     *)
(* value with the day window start unchanged.                              *)
C9_RolloverBelowDailyLimit ==
  [][\A p \in SeqProcs :
       (RolloverCase(p)
        /\ rate_limits[frame[p].user_id].daily_count < max_requests_per_day)
       => RolloverAdmits(p)]_vars

C9_Witness ==
  \E id \in DOMAIN rate_limits :
    /\ result[1] = "allowed" /\ pc[1] = "idle"
    /\ rate_limits[id].hourly_count = 1
    /\ rate_limits[id].daily_count = max_requests_per_hour + 1
    /\ rate_limits[id].last_hour_reset > rate_limits[id].last_day_reset

C11_DegradedDistinguished ==
  \A p \in SeqProcs :
    result[p] \in {"unavailable", "failed_open"} => chat[p].outcome # "ok"

(* C13: log_analytics and log_recommendation never let an error out: each  *)
(* call returns True or False, leaves the pool as it found it, and a call  *)
(* that returned False added no row.                                       *)
C13_LoggingNeverPropagates ==
  [][\A p \in SeqProcs :
       /\ chat'[p].attempts = chat[p].attempts + 1
          => /\ chat'[p].logged \in {"true", "false"}
             /\ used' = used
             /\ chat'[p].logged = "false" => analytics' = analytics
       /\ (pc[p] = "log_recommendation" /\ pc'[p] # "log_recommendation")
          => /\ pc'[p] = "log_success"
             /\ used' = used
             /\ recommendations' \in {recommendations, recommendations + 1}
    ]_vars

(* C15: when the pool could not be constructed the application runs all    *)
(* the same: connection_pool is None, init_database returned False, every  *)
(* check_rate_limit call returns the fail-open admit and every logging     *)
(* call returns False, none of them raising.                               *)
C15_DegradedStart ==
  ~connection_pool =>
    /\ db_initialized = "false"
    /\ \A p \in SeqProcs :
         /\ pc[p] \notin InCheckRateLimit
         /\ result[p] \in {"none", "unavailable"}
         /\ chat[p].logged \in {"none", "false"}
         /\ chat[p].attempts > 0 => ~chat[p].log_conn
         /\ chat[p].outcome \in {"none", "rejected", "no_model", "ok", "error"}

C15_Witness ==
  /\ ~connection_pool /\ db_initialized = "false"
  /\ result[1] = "unavailable"
  /\ chat[1].attempts = 1 /\ chat[1].logged = "false" /\ chat[1].outcome = "error"
  /\ requests = MaxRequests

(* C17: every hourly denial names a retry estimate between 0 and 60        *)
(* minutes.                                                                *)
C17_RetryWithinHour ==
  \A p \in Procs : result[p] = "hourly" => retry[p] \in 0..60

(* C20: when, after the reset tests, both counts are at their limits the   *)
(* call is denied with the hourly reason; the daily reason is given only   *)
(* with the hourly count below its limit.                                  *)
C20_HourlyBeforeDaily ==
  [][\A p \in SeqProcs :
       LET id == frame[p].user_id IN
       (SelectStep(p) /\ id \in DOMAIN rate_limits)
       => LET r == after_reset(rate_limits[id], frame[p].now) IN
          /\ (/\ r.hourly_count >= max_requests_per_hour
              /\ r.daily_count >= max_requests_per_day)
             => result'[p] = "hourly"
          /\ result'[p] = "daily" => r.hourly_count < max_requests_per_hour
    ]_vars

C20_Witness ==
  \E id \in DOMAIN rate_limits :
    /\ result[1] = "hourly" /\ pc[1] = "idle"
    /\ rate_limits[id].hourly_count = max_requests_per_hour
    /\ rate_limits[id].daily_count = max_requests_per_day

\* The positions of chat_with_recommendations past the rate-limit and model
\* tests: save_user_profile, the generation call, the logging that follows.
Downstream == {"save_profile", "generate", "log_recommendation", "log_success", "handler"}

(* C12: a request is past the rate-limit test (save_user_profile, the      *)
(* generation call, log_recommendation) only with an allow result of the   *)
(* check_rate_limit call made for it, and it gets there from that call's   *)
(* return alone; a denied request ends at once, without a recommendations  *)
(* row.                                                                    *)
C12_GenerationAfterAllow ==
  /\ [](\A p \in SeqProcs :
          pc[p] \in Downstream
          => /\ result[p] \in {"first", "allowed", "unavailable", "failed_open"}
             /\ chat[p].active)
  /\ [][\A p \in SeqProcs :
          /\ (pc'[p] \in Downstream /\ pc[p] \notin Downstream)
             => pc[p] = "rate_checked"
          /\ (pc[p] = "rate_checked" /\ result[p] \in {"hourly", "daily"}
              /\ pc'[p] # pc[p])
             => /\ pc'[p] = "idle"
                /\ chat'[p].outcome \in {"denied", "raised"}
                /\ recommendations' = recommendations
     ]_vars

C12_Witness ==
  /\ result[1] = "hourly" /\ pc[1] = "idle" /\ chat[1].outcome = "denied"
  /\ recommendations = max_requests_per_hour

C16_InvalidRejectedBeforeStore ==
  /\ [][\A p \in SeqProcs :
          (chat'[p].outcome = "rejected" /\ requests' = requests + 1)
          => /\ pc' = pc /\ used' = used /\ result' = result
             /\ rate_limits' = rate_limits /\ analytics' = analytics
             /\ chat'[p].attempts = 0
     ]_vars
  /\ [](/\ empty_user_id \notin DOMAIN rate_limits
        /\ \A p \in SeqProcs :
             frame[p].user_id = empty_user_id
             => pc[p] \notin {"insert", "update", "commit_insert", "commit_update"})

(* C18: with the store out of reach get_analytics_dashboard returns {} and *)
(* get_admin_dashboard the "unavailable" text, and no query method of      *)
(* DatabaseMonitor raises or prints rows: each returns None.               *)
C18_ReportsEmptyWhenUnreachable ==
  /\ dashboard.how \in {"noconn", "execute"}
     => dashboard.analytics = "empty" /\ dashboard.html = "unavailable"
  /\ (~connection_pool /\ dashboard.how # "none")
     => dashboard.how = "noconn" /\ used = 0
  /\ (monitor.configured /\ ~monitor.store_up)
     => /\ monitor.returned \in {"none", "None"}
        /\ ~monitor.printed
        /\ monitor.exit_code # 1

C18_Witness ==
  /\ connection_pool /\ analytics > 0
  /\ dashboard.how = "noconn" /\ dashboard.html = "unavailable"
  /\ monitor.at = "exited" /\ monitor.command = "full"
  /\ ~monitor.store_up /\ monitor.returned = "None"

(* C19: db_monitor.main ends with exit code 0 when its sub-command got its *)
(* rows, and with a non-zero exit code when the store was out of reach as  *)
(* it started.                                                             *)
C19_ExitCode ==
  monitor.at = "exited" =>
    /\ monitor.returned = "rows" => monitor.exit_code = 0
    /\ (monitor.configured /\ ~monitor.store_up /\ monitor.command # "help")
       => monitor.exit_code # 0

(* C21: the hourly counter and window start are reset exactly when now     *)
(* minus the stored hour window start is more than one hour, the daily     *)
(* pair exactly when now minus the stored day window start is more than 24 *)
(* hours, each without regard to the other; a denial with the hourly       *)
(* (daily) reason is never given in a call that reset the hour (day)       *)
(* window.                                                                 *)
C21_ResetsIndependentStrict ==
  [][\A p \in SeqProcs :
       LET id == frame[p].user_id IN
       (SelectStep(p) /\ id \in DOMAIN rate_limits)
       => LET rec == rate_limits[id]
              now == frame[p].now
              hour_over == now - rec.last_hour_reset > Hour
              day_over == now - rec.last_day_reset > Day
          IN /\ pc'[p] = "update"
                => /\ frame'[p].hourly_count = (IF hour_over THEN 0 ELSE rec.hourly_count)
                   /\ frame'[p].last_hour_reset = (IF hour_over THEN now ELSE rec.last_hour_reset)
                   /\ frame'[p].daily_count = (IF day_over THEN 0 ELSE rec.daily_count)
                   /\ frame'[p].last_day_reset = (IF day_over THEN now ELSE rec.last_day_reset)
             /\ result'[p] = "hourly" => ~hour_over
             /\ result'[p] = "daily" => ~day_over
    ]_vars

\* A record whose day window was reset in a call that left its hour window.
C21_Witness ==
  \E id \in DOMAIN rate_limits :
    /\ result[1] = "allowed" /\ pc[1] = "idle"
    /\ rate_limits[id].last_day_reset = Day + Hour
    /\ rate_limits[id].last_hour_reset = Day
    /\ rate_limits[id].daily_count = 1
    /\ rate_limits[id].hourly_count = 2

(* C22: a call that finds no record goes to the INSERT without testing a   *)
(* limit, and its commit stores hourly_count 1, daily_count 1 and both     *)
(* window starts at the call's now, and returns the admit.                 *)
C22_FirstRequestInserts ==
  [][\A p \in SeqProcs :
       LET id == frame[p].user_id IN
       /\ (SelectStep(p) /\ id \notin DOMAIN rate_limits)
          => pc'[p] = "insert" /\ result'[p] = "none"
       /\ (pc[p] = "commit_insert" /\ CommitStep(p))
          => /\ id \notin DOMAIN rate_limits
             /\ rate_limits' = (id :> [hourly_count |-> 1, daily_count |-> 1,
                                       last_hour_reset |-> frame[p].now,
                                       last_day_reset |-> frame[p].now]) @@ rate_limits
             /\ result'[p] = "first"
    ]_vars

C22_Witness ==
  \E id \in DOMAIN rate_limits :
    /\ result[1] = "first" /\ pc[1] = "idle"
    /\ rate_limits[id].hourly_count = 1 /\ rate_limits[id].daily_count = 1
    /\ rate_limits[id].last_hour_reset = Day
    /\ rate_limits[id].last_day_reset = Day

(* C23: a rate_limits record, once committed, is there in every later      *)
(* state, and no INSERT commits for an identity that has a record, also    *)
(* when two first requests for one fresh identity run side by side: the    *)
(* table never holds two records of one identity.                          *)
C23_OneRecordKept ==
  [][/\ DOMAIN rate_limits \subseteq DOMAIN rate_limits'
     /\ \A p \in Procs :
          (pc[p] = "commit_insert" /\ CommitStep(p))
          => frame[p].user_id \notin DOMAIN rate_limits
    ]_vars

\* Two first requests met: one inserted, the other ran into the key.
C23_Witness ==
  \E id \in DOMAIN rate_limits :
    /\ faults = 0
    /\ result[1] = "first" /\ result[2] = "failed_open"
    /\ rate_limits[id].hourly_count = 1

(* C24: a call is answered with the fail-open admit after a store error    *)
(* only when the error came twice: the first one is retried.               *)
C24_RetriedOnce ==
  \A p \in SeqProcs : result[p] = "failed_open" => faults >= 2

(* C26: a call that denies leaves the stored record as it was, also when   *)
(* its reset tests had reset the other window.                             *)
C26_DenyLeavesRecord ==
  [][\A p \in SeqProcs :
       (pc[p] \in InCheckRateLimit /\ result'[p] \in {"hourly", "daily"})
       => /\ rate_limits' = rate_limits
          /\ pending'[p] = <<>>
          /\ pc'[p] = "idle"
    ]_vars

\* A daily denial in a call that found the hour window over.
C26_Witness ==
  \E id \in DOMAIN rate_limits :
    /\ result[1] = "daily" /\ pc[1] = "idle"
    /\ rate_limits[id].hourly_count = max_requests_per_hour
    /\ rate_limits[id].daily_count = max_requests_per_day
    /\ clock = rate_limits[id].last_hour_reset + 2 * Hour

\* The clock hour of an identity made by get_user_id.
BucketOf(id) == id[2]

\* Process p read `now` within the clock hour in which its identity was
\* derived, and so did the call that started the hour window of its record.
Punctual(p) ==
  LET id == frame[p].user_id IN
  /\ hour_bucket(frame[p].now) = BucketOf(id)
  /\ id \in DOMAIN rate_limits
     => hour_bucket(rate_limits[id].last_hour_reset) = BucketOf(id)

\* What C27 says of a call that finds a record: neither window is over and
\* the denial, if any, is not the daily one.
NoResetNoDaily(p) ==
  LET id == frame[p].user_id IN
  (SelectStep(p) /\ id \in DOMAIN rate_limits)
  => /\ frame[p].now - rate_limits[id].last_hour_reset <= Hour
     /\ frame[p].now - rate_limits[id].last_day_reset <= Day
     /\ result'[p] # "daily"

C29_QuotaConsumed ==
  /\ [][\A p \in SeqProcs :
          pc[p] \in {"rate_checked"} \cup Downstream => rate_limits' = rate_limits
     ]_vars
  /\ [](\A p \in SeqProcs :
          (/\ result[p] \in {"first", "allowed"}
           /\ \/ pc[p] \in {"rate_checked"} \cup Downstream
              \/ pc[p] = "idle" /\ chat[p].outcome \in {"no_model", "error", "ok", "raised"})
          => LET id == chat[p].user_id IN
             /\ id \in DOMAIN rate_limits
             /\ rate_limits[id].hourly_count = hourAdmitted[id]
             /\ rate_limits[id].daily_count = dayAdmitted[id])

\* A request admitted as the second of its window whose generation failed.
C29_Witness ==
  /\ pc[1] = "idle" /\ chat[1].outcome = "error" /\ result[1] = "allowed"
  /\ chat[1].user_id \in DOMAIN rate_limits
  /\ rate_limits[chat[1].user_id].hourly_count = 2
  /\ recommendations = 0

(* C30: connection_pool, once None, stays None, and from then on every     *)
(* check_rate_limit call returns the fail-open admit and every             *)
(* log_analytics call returns False.                                       *)
C30_DegradedPermanent ==
  [][~connection_pool =>
       /\ ~connection_pool'
       /\ \A p \in SeqProcs :
            /\ (pc[p] = "call" /\ pc'[p] # "call")
               => result'[p] = "unavailable" /\ pc'[p] = "rate_checked"
            /\ chat'[p].attempts > chat[p].attempts => chat'[p].logged = "false"
    ]_vars

C30_Witness ==
  /\ ~connection_pool /\ clock = MaxTimeChat /\ requests = MaxRequests
  /\ result[1] = "unavailable" /\ pc[1] = "idle"
  /\ chat[1].logged = "false" /\ chat[1].outcome = "ok"

RECURSIVE SumTo(_, _)
\* f[0] + ... + f[n]
SumTo(f, n) == IF n = 0 THEN f[0] ELSE f[n] + SumTo(f, n - 1)

\* The calls admitted for the identity of SpanIds whose now lies within the
\* hour that ends at the clock.
SpanAdmitted == SumTo(spanAdmitted, Hour)

C28_ExhaustedPoolAdmits ==
  [][\A p \in SeqProcs :
       (pc[p] = "idle" /\ connection_pool /\ used = maxconn)
       => /\ pc'[p] = "idle"
          /\ result'[p] \in {result[p], "unavailable"}
          /\ rate_limits' = rate_limits
          /\ used' <= used
    ]_vars

C28_Witness ==
  \E id \in DOMAIN rate_limits :
    /\ connection_pool /\ used = maxconn /\ others = maxconn /\ faults = 0
    /\ result[1] = "unavailable" /\ pc[1] = "idle"
    /\ rate_limits[id].hourly_count = max_requests_per_hour

====
